---------------------------- MODULE Spec2Model ----------------------------
(***************************************************************************)
(* State-machine model of the home page of the HF Papers Archive site      *)
(* (site/components/home-client.tsx): the filter state held by the         *)
(* HomeClient component, the values it memoizes on every render (filtered, *)
(* grouped, visibleDates, activeDailySummary) and its event handlers, and *)
(* of the overview panel it renders (site/components/daily-summary.tsx).   *)
(*                                                                         *)
(* Text is a sequence of one-character strings, so that trim, lower-casing,*)
(* splitting and substring search are computed and not assumed.  An        *)
(* optional JSON value is a sequence of length 0 (absent, null, undefined) *)
(* or 1 (the value).                                                       *)
(***************************************************************************)
EXTENDS Integers, Sequences, FiniteSets, TLC

(***************************************************************************)
(* Bounds of the model.                                                    *)
(***************************************************************************)
MaxPapers == 3
MaxDates == 3
MaxLines == 4

(***************************************************************************)
(* String primitives of the JavaScript runtime used by the component.      *)
(***************************************************************************)
\* String.prototype.toLowerCase on one character of the modelled alphabet.
LowerChar(c) == IF c = "X" THEN "x" ELSE IF c = "Y" THEN "y" ELSE c

toLowerCase(s) == [i \in 1..Len(s) |-> LowerChar(s[i])]

\* The characters matched by \s and stripped by trim.
IsSpace(c) == c \in {" ", "\n"}

RECURSIVE trimStart(_)
trimStart(s) ==
  IF s # <<>> /\ IsSpace(Head(s)) THEN trimStart(Tail(s)) ELSE s

RECURSIVE trimEnd(_)
trimEnd(s) ==
  IF s # <<>> /\ IsSpace(s[Len(s)]) THEN trimEnd(SubSeq(s, 1, Len(s) - 1)) ELSE s

\* String.prototype.trim
trim(s) == trimEnd(trimStart(s))

\* String.prototype.includes
includes(hay, needle) ==
  \E i \in 0..(Len(hay) - Len(needle)) : SubSeq(hay, i + 1, i + Len(needle)) = needle

\* Array.prototype.join
RECURSIVE join(_, _)
join(list, sep) ==
  IF list = <<>> THEN <<>>
  ELSE IF Len(list) = 1 THEN list[1]
  ELSE list[1] \o sep \o join(Tail(list), sep)

\* String.prototype.split(/\s+/): the pieces between maximal runs of
\* whitespace, empty pieces at the ends included.
RECURSIVE splitWhitespace(_, _, _, _)
splitWhitespace(s, i, cur, inRun) ==
  IF i > Len(s) THEN <<cur>>
  ELSE IF IsSpace(s[i])
       THEN IF inRun THEN splitWhitespace(s, i + 1, cur, TRUE)
            ELSE <<cur>> \o splitWhitespace(s, i + 1, <<>>, TRUE)
       ELSE splitWhitespace(s, i + 1, Append(cur, s[i]), FALSE)

StartsWith(s, prefix) ==
  Len(prefix) <= Len(s) /\ SubSeq(s, 1, Len(prefix)) = prefix

(***************************************************************************)
(* home-client.tsx, module-level helpers.                                  *)
(***************************************************************************)
normalize(input) == toLowerCase(trim(input))

splitTerms(q) ==
  LET pieces == splitWhitespace(q, 1, <<>>, FALSE)
      trimmed == [i \in 1..Len(pieces) |-> trim(pieces[i])]
      Truthy(t) == t # <<>>
  IN SelectSeq(trimmed, Truthy)


(***************************************************************************)
(* The lunr full-text index (third-party library, version 2 API as used at *)
(* home-client.tsx:95-104 and :117).  The library is not part of the       *)
(* repository; the component fixes only what it passes in (the fields, the *)
(* documents, the query string of wildcard terms) and what it does with    *)
(* the result or the exception.  The tokenizer lower-cases and splits      *)
(* on whitespace and hyphens; the default pipeline is trimmer, stop-word   *)
(* filter, stemmer.  No stop word of lunr can be spelled in the modelled   *)
(* alphabet and lunr.stemmer returns words shorter than three characters   *)
(* unchanged, which covers every token of the modelled documents.          *)
(***************************************************************************)
IsWordChar(c) == c \in {"x", "y", "X", "Y"}

\* lunr.tokenizer: lower-case, split on the separator /[\s\-]+/, no empty
\* token.  The modelled alphabet has no hyphen.
lunrTokenizer(str) ==
  LET NonEmpty(t) == t # <<>>
  IN SelectSeq(splitWhitespace(toLowerCase(str), 1, <<>>, FALSE), NonEmpty)

RECURSIVE trimNonWordStart(_)
trimNonWordStart(t) ==
  IF t # <<>> /\ ~IsWordChar(Head(t)) THEN trimNonWordStart(Tail(t)) ELSE t

RECURSIVE trimNonWordEnd(_)
trimNonWordEnd(t) ==
  IF t # <<>> /\ ~IsWordChar(t[Len(t)])
  THEN trimNonWordEnd(SubSeq(t, 1, Len(t) - 1)) ELSE t

\* lunr.trimmer: strip leading and trailing non-word characters.
lunrTrimmer(t) == trimNonWordEnd(trimNonWordStart(t))

\* The terms one field value contributes to the inverted index.
lunrFieldTerms(str) ==
  LET toks == lunrTokenizer(str)
  IN {lunrTrimmer(toks[i]) : i \in 1..Len(toks)}

\* The fields registered by the builder: title, authors, abstract,
\* summary_en, summary_zh; ref is id.
lunrDocTerms(doc) ==
  lunrFieldTerms(doc.title) \cup lunrFieldTerms(doc.authors)
    \cup lunrFieldTerms(doc.abstract) \cup lunrFieldTerms(doc.summary_en)
    \cup lunrFieldTerms(doc.summary_zh)

\* const lunrIndex = useMemo(...): null (absent) without search documents,
\* otherwise the index: per document its ref and its indexed terms.
lunrIndexOf(docs) ==
  IF Len(docs) = 0 THEN <<>>
  ELSE << [i \in 1..Len(docs) |-> [ref |-> docs[i].id, terms |-> lunrDocTerms(docs[i])]] >>

\* One clause of a parsed query string.  A ":" ends a field name, and no
\* field name can be spelled in the modelled alphabet, so the parser throws
\* QueryParseError (unrecognised field).  Otherwise the clause is a term with
\* a trailing wildcard, matched without the pipeline against every field.
lunrClauseThrows(clause) == \E i \in 1..Len(clause) : clause[i] = ":"

lunrClausePrefix(clause) ==
  IF clause # <<>> /\ clause[Len(clause)] = "*"
  THEN SubSeq(clause, 1, Len(clause) - 1) ELSE clause

lunrClauseMatches(clause, terms) ==
  \E t \in terms : StartsWith(t, lunrClausePrefix(clause))

\* How the library combines the clauses of a query string that marks none
\* of them with + or -: every clause required (the terms are ANDed, as the
\* specification of the query planner describes the default combinator) or
\* every clause optional (the terms are ORed).  The component states no
\* combinator at home-client.tsx:116-117 and the library is not among the
\* sources, so the model leaves the choice open: it is made when the page
\* is built.
VARIABLE lunrPresence

LunrPresences == {"required", "optional"}

\* What is typed into the keyword input.
QueryInputs == {<<>>, <<" ", "X">>, <<"y">>, <<"x", " ", "y">>, <<"x", ":">>}

\* const lunrQuery = terms.map((term) => `${term}*`).join(' ')
lunrQueryOf(terms) == join([i \in 1..Len(terms) |-> terms[i] \o <<"*">>], <<" ">>)

\* The terms, the query string and its clauses depend on the typed text
\* alone: for the texts of QueryInputs they are computed once and looked up
\* afterwards, for any other text they are computed when asked.
TypedQueries == {normalize(v) : v \in QueryInputs}

typedTerms == [q \in TypedQueries |-> splitTerms(q)]

termsOf(q) == IF q \in TypedQueries THEN typedTerms[q] ELSE splitTerms(q)

TypedLunrQueries == {lunrQueryOf(typedTerms[q]) : q \in TypedQueries}

typedClauses == [queryString \in TypedLunrQueries |-> lunrTokenizer(queryString)]

clausesOf(queryString) ==
  IF queryString \in TypedLunrQueries THEN typedClauses[queryString]
  ELSE lunrTokenizer(queryString)

\* lunr.Index.prototype.search for the query strings the component builds
\* from the modelled alphabet (letters, ":" and the blank between terms):
\* wildcard terms without presence, boost, edit-distance or hyphen, and with
\* no field name that exists.
lunrSearch(index, queryString) ==
  LET clauses == clausesOf(queryString)
      Hit(e, i) == lunrClauseMatches(clauses[i], index[e].terms)
      Result(e) == IF lunrPresence = "required"
                   THEN \A i \in 1..Len(clauses) : Hit(e, i)
                   ELSE \E i \in 1..Len(clauses) : Hit(e, i)
  IN IF \E i \in 1..Len(clauses) : lunrClauseThrows(clauses[i])
     THEN [threw |-> TRUE, refs |-> {}]
     ELSE [threw |-> FALSE,
           refs |-> {index[d].ref : d \in {e \in 1..Len(index) : Result(e)}}]

(***************************************************************************)
(* The corpus snapshots of the model.  Dates are ISO day strings, paper    *)
(* ids are strings; String.prototype.localeCompare on them is their        *)
(* position in the collation order of the strings that occur.              *)
(***************************************************************************)
D19 == "2026-02-19"
D18 == "2026-02-18"
D17 == "2026-02-17"
D16 == "2026-02-16"

CollationOrder == <<D16, D17, D18, D19, "p1", "p2", "p3", "p4", "p5">>

CollationRank(s) == CHOOSE i \in 1..Len(CollationOrder) : CollationOrder[i] = s

localeCompare(a, b) ==
  IF a = b THEN 0
  ELSE IF CollationRank(a) < CollationRank(b) THEN -1 ELSE 1

\* PaperRecord (site/lib/types.ts); the URL fields and fetched_at are
\* display-only and left out.
P1 == [date |-> D19, paper_id |-> "p1", title |-> <<"X", "y">>,
       authors |-> << <<"X", "y">> >>, abstract |-> <<>>,
       summary_en |-> <<>>, summary_zh |-> <<>>, upvotes |-> <<>>]
P2 == [date |-> D19, paper_id |-> "p2", title |-> <<"y">>,
       authors |-> << <<"x">>, <<"Y">> >>, abstract |-> <<"x", " ", "y">>,
       summary_en |-> <<>>, summary_zh |-> <<>>, upvotes |-> <<0>>]
P3 == [date |-> D19, paper_id |-> "p3", title |-> <<"x", ":", " ", "y">>,
       authors |-> <<>>, abstract |-> <<>>,
       summary_en |-> <<"y", "x">>, summary_zh |-> <<>>, upvotes |-> <<50>>]
P4 == [date |-> D18, paper_id |-> "p4", title |-> <<>>,
       authors |-> << <<"y">> >>, abstract |-> <<>>,
       summary_en |-> <<>>, summary_zh |-> <<"Y", "x">>, upvotes |-> <<50>>]

PaperPool == {P1, P2, P3, P4}

\* A record of index.json without the authors field: JSON.parse(raw) as
\* IndexPayload (site/lib/data.ts) accepts it, and paper.authors is undefined.
P5 == [date |-> D18, paper_id |-> "p5", title |-> <<"y">>, abstract |-> <<>>,
       summary_en |-> <<>>, summary_zh |-> <<>>, upvotes |-> <<0>>]

\* SearchDoc (site/lib/types.ts): the text projection of one paper that the
\* index pipeline writes to search_index.json.
SearchDocOf(paper) ==
  [id |-> paper.paper_id, title |-> paper.title,
   authors |-> join(paper.authors, <<" ">>), abstract |-> paper.abstract,
   summary_en |-> paper.summary_en, summary_zh |-> paper.summary_zh]

(***************************************************************************)
(* The component state.                                                    *)
(***************************************************************************)
VARIABLES
  papers,              \* props: PaperRecord[]
  dates,               \* props: string[], the date index
  searchDocs,          \* props: SearchDoc[]
  dailySummary,        \* props: optional DailySummary
  dailySummaries,      \* props: Record<string, DailySummary>
  query,               \* useState('')
  dateFilter,          \* useState(dates[0] ?? '')
  authorFilter,        \* useState('')
  lang,                \* useState('zh')
  lunrIndex,           \* useMemo [searchDocs]
  filtered,            \* useMemo [authorFilter, dateFilter, lunrIndex, papers, query]
  grouped,             \* useMemo [filtered]
  visibleDates,        \* useMemo [dates, grouped]
  activeDailySummary,  \* useMemo [dailySummaries, dailySummary, selectedDate]
  open,                \* DailySummaryPanel: useState(true)
  content,             \* DailySummaryPanel: the trimmed content of the last render
  blocks,              \* DailySummaryPanel: the blocks of the last render
  renderError,         \* a render threw: the component is unmounted
  last                 \* the last handler that ran and the state it ran in

props == <<papers, dates, searchDocs, dailySummary, dailySummaries>>
filterState == <<query, dateFilter, authorFilter, lang>>
memos == <<lunrIndex, filtered, grouped, visibleDates, activeDailySummary>>
panel == <<open, content, blocks>>
vars == <<props, lunrPresence, filterState, memos, panel, renderError, last>>

(***************************************************************************)
(* Values computed on every render (home-client.tsx:56-62).                *)
(***************************************************************************)
\* Array.prototype.indexOf: zero-based index of the first occurrence, or -1.
indexOf(seq, x) ==
  IF \E i \in 1..Len(seq) : seq[i] = x
  THEN (CHOOSE i \in 1..Len(seq) :
          seq[i] = x /\ \A j \in 1..(i - 1) : seq[j] # x) - 1
  ELSE -1

\* The default of a page that opens on all dates, whatever the date index.
firstDateOrAllDates(ds) == ""

\* dates[0] ?? ''
firstDateOr(ds) == IF Len(ds) > 0 THEN ds[1] ELSE ""

selectedDateOf(df, ds) == IF df # "" THEN df ELSE firstDateOr(ds)

selectedDateIndexOf(df, ds) ==
  IF selectedDateOf(df, ds) # "" THEN indexOf(ds, selectedDateOf(df, ds)) ELSE -1

selectedDate == selectedDateOf(dateFilter, dates)

selectedDateIndex == selectedDateIndexOf(dateFilter, dates)

\* canGoPrevDay without the test for a date that is not in the index.
canGoPrevDayNoLowerBound == selectedDateIndex < Len(dates) - 1

canGoPrevDay == selectedDateIndex >= 0 /\ selectedDateIndex < Len(dates) - 1

canGoNextDay == selectedDateIndex > 0

\* The disabled attribute without the test for an empty date filter.
prevDayDisabledIgnoringFilter == ~canGoPrevDay

\* The disabled attribute of the two navigation buttons (lines 200, 213).
prevDayDisabled == dateFilter # "" /\ ~canGoPrevDay

nextDayDisabled == dateFilter # "" /\ ~canGoNextDay

(***************************************************************************)
(* const filtered = useMemo(...) (home-client.tsx:107-162).                *)
(***************************************************************************)
\* lines 111-123: null (<<>>) or the set of refs the index returned.
allowedIdsOf(q, index) ==
  IF q # <<>> /\ index # <<>>
  THEN LET terms == termsOf(q)
       IN IF Len(terms) > 0
          THEN LET lunrQuery == lunrQueryOf(terms)
                   results == lunrSearch(index[1], lunrQuery)
               IN IF results.threw THEN <<>> ELSE <<results.refs>>
          ELSE <<>>
  ELSE <<>>

\* lines 145-147
fallbackTextOf(paper) ==
  toLowerCase(join(<<paper.title, join(paper.authors, <<" ">>), paper.abstract,
                     paper.summary_en, paper.summary_zh>>, <<" ">>))

\* line 131
authorsHayOf(paper) == toLowerCase(join(paper.authors, <<" ">>))

\* Both texts depend on the paper alone: they are computed once per paper
\* of the pool and looked up afterwards.
fallbackText == [paper \in PaperPool |-> fallbackTextOf(paper)]

authorsHay == [paper \in PaperPool |-> authorsHayOf(paper)]

\* The callback without its author test.
paperMatchesNoAuthor(paper, q, authorQ, df, allowedIds) ==
  IF df # "" /\ paper.date # df THEN FALSE
  ELSE IF q = <<>> THEN TRUE
  ELSE IF allowedIds # <<>> /\ Cardinality(allowedIds[1]) > 0
       THEN paper.paper_id \in allowedIds[1]
  ELSE includes(fallbackText[paper], q)

\* The callback trying the substring test on a paper the index did not return.
paperMatchesOrSubstring(paper, q, authorQ, df, allowedIds) ==
  IF df # "" /\ paper.date # df THEN FALSE
  ELSE IF authorQ # <<>> /\ ~includes(authorsHay[paper], authorQ) THEN FALSE
  ELSE IF q = <<>> THEN TRUE
  ELSE IF allowedIds # <<>> /\ Cardinality(allowedIds[1]) > 0 /\ paper.paper_id \in allowedIds[1]
       THEN TRUE
  ELSE includes(fallbackText[paper], q)

\* The callback testing the split terms, not the whole query, in the fallback.
paperMatchesTermwise(paper, q, authorQ, df, allowedIds) ==
  IF df # "" /\ paper.date # df THEN FALSE
  ELSE IF authorQ # <<>> /\ ~includes(authorsHay[paper], authorQ) THEN FALSE
  ELSE IF q = <<>> THEN TRUE
  ELSE IF allowedIds # <<>> /\ Cardinality(allowedIds[1]) > 0
       THEN paper.paper_id \in allowedIds[1]
  ELSE \A i \in 1..Len(splitTerms(q)) : includes(fallbackText[paper], splitTerms(q)[i])

\* The callback comparing the date without testing the date filter for empty.
paperMatchesNoDateGuard(paper, q, authorQ, df, allowedIds) ==
  IF paper.date # df THEN FALSE
  ELSE IF authorQ # <<>> /\ ~includes(authorsHay[paper], authorQ) THEN FALSE
  ELSE IF q = <<>> THEN TRUE
  ELSE IF allowedIds # <<>> /\ Cardinality(allowedIds[1]) > 0
       THEN paper.paper_id \in allowedIds[1]
  ELSE includes(fallbackText[paper], q)

\* The callback running the substring test only on an empty candidate set,
\* not on an absent one.
paperMatchesNoFallbackWhenAbsent(paper, q, authorQ, df, allowedIds) ==
  IF df # "" /\ paper.date # df THEN FALSE
  ELSE IF authorQ # <<>> /\ ~includes(authorsHay[paper], authorQ) THEN FALSE
  ELSE IF q = <<>> THEN TRUE
  ELSE IF allowedIds = <<>> THEN FALSE
  ELSE IF Cardinality(allowedIds[1]) > 0 THEN paper.paper_id \in allowedIds[1]
  ELSE includes(fallbackText[paper], q)

\* lines 125-149: the callback of papers.filter
paperMatches(paper, q, authorQ, df, allowedIds) ==
  IF df # "" /\ paper.date # df THEN FALSE
  ELSE IF authorQ # <<>> /\ ~includes(authorsHay[paper], authorQ) THEN FALSE
  ELSE IF q = <<>> THEN TRUE
  ELSE IF allowedIds # <<>> /\ Cardinality(allowedIds[1]) > 0
       THEN paper.paper_id \in allowedIds[1]
  ELSE includes(fallbackText[paper], q)

\* paper.authors evaluates to undefined
authorsUndefined(paper) == "authors" \notin DOMAIN paper

\* lines 125-149: the callback throws a TypeError when it reaches
\* paper.authors.join (lines 131 and 145) on a record without authors.
paperMatchesThrows(paper, q, authorQ, df, allowedIds) ==
  /\ authorsUndefined(paper)
  /\ ~(df # "" /\ paper.date # df)
  /\ \/ authorQ # <<>>
     \/ q # <<>> /\ ~(allowedIds # <<>> /\ Cardinality(allowedIds[1]) > 0)

\* (paper.upvotes || 0)
upvotesOrZero(paper) == IF paper.upvotes = <<>> THEN 0 ELSE paper.upvotes[1]

\* The comparator with the date key ascending.
compareDateAscending(a, b) ==
  LET byUpvotes == upvotesOrZero(b) - upvotesOrZero(a)
      byDate == localeCompare(a.date, b.date)
  IN IF byUpvotes # 0 THEN byUpvotes
     ELSE IF byDate # 0 THEN byDate
     ELSE localeCompare(a.paper_id, b.paper_id)

\* The comparator without the tie-break on the paper id.
compareNoIdTieBreak(a, b) ==
  LET byUpvotes == upvotesOrZero(b) - upvotesOrZero(a)
  IN IF byUpvotes # 0 THEN byUpvotes ELSE localeCompare(b.date, a.date)

\* lines 150-160: the comparator of matched.sort
compare(a, b) ==
  LET byUpvotes == upvotesOrZero(b) - upvotesOrZero(a)
      byDate == localeCompare(b.date, a.date)
  IN IF byUpvotes # 0 THEN byUpvotes
     ELSE IF byDate # 0 THEN byDate
     ELSE localeCompare(a.paper_id, b.paper_id)

\* Array.prototype.sort with a comparator: a stable sort.
RECURSIVE insertSorted(_, _)
insertSorted(sorted, x) ==
  IF sorted = <<>> THEN <<x>>
  ELSE IF compare(Head(sorted), x) <= 0
       THEN <<Head(sorted)>> \o insertSorted(Tail(sorted), x)
       ELSE <<x>> \o sorted

RECURSIVE sort(_)
sort(s) ==
  IF s = <<>> THEN <<>>
  ELSE insertSorted(sort(SubSeq(s, 1, Len(s) - 1)), s[Len(s)])

filteredOf(ps, index, rawQuery, df, rawAuthor) ==
  LET q == normalize(rawQuery)
      authorQ == normalize(rawAuthor)
      allowedIds == allowedIdsOf(q, index)
      Keep(paper) == paperMatches(paper, q, authorQ, df, allowedIds)
  IN sort(SelectSeq(ps, Keep))

\* papers.filter stops at the first callback that throws; the error is not
\* caught inside useMemo.
filteredThrows(ps, index, rawQuery, df, rawAuthor) ==
  LET q == normalize(rawQuery)
      authorQ == normalize(rawAuthor)
  IN \E i \in 1..Len(ps) :
       paperMatchesThrows(ps[i], q, authorQ, df, allowedIdsOf(q, index))

\* line 341: paper.authors.length, evaluated for every paper of a group whose
\* date is rendered (a date of the date index).
cardsThrow(ps, ds, index, rawQuery, df, rawAuthor) ==
  \E i \in 1..Len(ps) :
    /\ authorsUndefined(ps[i])
    /\ \E k \in 1..Len(ds) : ds[k] = ps[i].date
    /\ \E j \in 1..Len(filteredOf(ps, index, rawQuery, df, rawAuthor)) :
         filteredOf(ps, index, rawQuery, df, rawAuthor)[j] = ps[i]

(***************************************************************************)
(* grouped, visibleDates, activeDailySummary (home-client.tsx:164-190).    *)
(***************************************************************************)
\* A Map<string, PaperRecord[]> in insertion order: a sequence of entries.
hasKey(groups, date) == \E i \in 1..Len(groups) : groups[i].key = date

getKey(groups, date) ==
  groups[CHOOSE i \in 1..Len(groups) : groups[i].key = date].value

RECURSIVE groupInto(_, _)
groupInto(groups, list) ==
  IF list = <<>> THEN groups
  ELSE LET paper == Head(list)
           withKey == IF hasKey(groups, paper.date) THEN groups
                      ELSE Append(groups, [key |-> paper.date, value |-> <<>>])
           pushed == [i \in 1..Len(withKey) |->
                        IF withKey[i].key = paper.date
                        THEN [withKey[i] EXCEPT !.value = Append(@, paper)]
                        ELSE withKey[i]]
       IN groupInto(pushed, Tail(list))

\* Grouping that opens a new group whenever the date differs from the
\* previous paper's.
RECURSIVE groupRuns(_, _)
groupRuns(groups, list) ==
  IF list = <<>> THEN groups
  ELSE LET paper == Head(list)
       IN IF groups # <<>> /\ groups[Len(groups)].key = paper.date
          THEN groupRuns([groups EXCEPT ![Len(groups)].value = Append(@, paper)], Tail(list))
          ELSE groupRuns(Append(groups, [key |-> paper.date, value |-> <<paper>>]), Tail(list))

groupedOfRuns(list) == groupRuns(<<>>, list)

groupedOf(list) == groupInto(<<>>, list)

\* The visible dates taken from the groups in their insertion order.
visibleDatesOfGroupOrder(ds, groups) ==
  LET keys == [i \in 1..Len(groups) |-> groups[i].key]
      Known(date) == \E i \in 1..Len(ds) : ds[i] = date
  IN SelectSeq(keys, Known)

visibleDatesOf(ds, groups) ==
  LET Has(date) == hasKey(groups, date)
  IN SelectSeq(ds, Has)

\* The resolver trying the single summary before the per-date mapping.
activeDailySummaryOfSingleFirst(selDate, single, byDate) ==
  IF selDate = "" THEN single
  ELSE IF single # <<>> /\ single[1].date = selDate THEN single
  ELSE IF selDate \in DOMAIN byDate THEN <<byDate[selDate]>>
  ELSE <<>>

\* The resolver without the default summary for an empty selected date.
activeDailySummaryOfNoDefault(selDate, single, byDate) ==
  IF selDate = "" THEN <<>>
  ELSE IF selDate \in DOMAIN byDate THEN <<byDate[selDate]>>
  ELSE IF single # <<>> /\ single[1].date = selDate THEN single
  ELSE <<>>

\* lines 179-190
activeDailySummaryOf(selDate, single, byDate) ==
  IF selDate = "" THEN single
  ELSE IF selDate \in DOMAIN byDate THEN <<byDate[selDate]>>
  ELSE IF single # <<>> /\ single[1].date = selDate THEN single
  ELSE <<>>

(***************************************************************************)
(* What the render shows of the list (home-client.tsx:321, 328-331).       *)
(***************************************************************************)
\* The result chip: {filtered.length}.
resultCount == Len(filtered)

\* The cards rendered from every group of the map, whatever the date index.
RECURSIVE shownPapersOfEveryGroup(_, _)
shownPapersOfEveryGroup(vds, groups) ==
  IF groups = <<>> THEN <<>>
  ELSE Head(groups).value \o shownPapersOfEveryGroup(vds, Tail(groups))

\* The cards rendered: visibleDates.map(date => grouped.get(date)!.map(...)).
RECURSIVE shownPapersOf(_, _)
shownPapersOf(vds, groups) ==
  IF vds = <<>> THEN <<>>
  ELSE getKey(groups, Head(vds)) \o shownPapersOf(Tail(vds), groups)

shownPapers == shownPapersOf(visibleDates, grouped)

(***************************************************************************)
(* site/components/daily-summary.tsx: the overview panel.                  *)
(***************************************************************************)
\* The characters matched by \d.
IsDigit(c) == c \in {"0", "1", "2", "3", "4", "5", "6", "7", "8", "9"}

\* String.prototype.split('\n')
RECURSIVE splitLines(_, _, _)
splitLines(s, i, cur) ==
  IF i > Len(s) THEN <<cur>>
  ELSE IF s[i] = "\n" THEN <<cur>> \o splitLines(s, i + 1, <<>>)
  ELSE splitLines(s, i + 1, Append(cur, s[i]))

\* The last position of the match of /\n\s*\n/ that starts at position i,
\* or 0 when there is no match at i; \s* is greedy.
matchBlankEnd(s, i) ==
  IF s[i] # "\n" THEN 0
  ELSE LET ends == {k \in (i + 1)..Len(s) :
                      s[k] = "\n" /\ \A m \in (i + 1)..k : IsSpace(s[m])}
       IN IF ends = {} THEN 0 ELSE CHOOSE k \in ends : \A e \in ends : e <= k

\* String.prototype.split(/\n\s*\n/g)
RECURSIVE splitBlankLines(_, _, _)
splitBlankLines(s, i, cur) ==
  IF i > Len(s) THEN <<cur>>
  ELSE IF matchBlankEnd(s, i) > 0
       THEN <<cur>> \o splitBlankLines(s, matchBlankEnd(s, i) + 1, <<>>)
       ELSE splitBlankLines(s, i + 1, Append(cur, s[i]))

\* chunk.split('\n').map((line) => line.trim()).filter(Boolean)
chunkLines(chunk) ==
  LET lines == splitLines(chunk, 1, <<>>)
      Truthy(line) == line # <<>>
  IN SelectSeq([i \in 1..Len(lines) |-> trim(lines[i])], Truthy)

\* /^-\s+/.test(line)
matchesBullet(line) == Len(line) >= 2 /\ line[1] = "-" /\ IsSpace(line[2])

\* The number of leading digits of the line.
RECURSIVE digitsLen(_)
digitsLen(line) ==
  IF line # <<>> /\ IsDigit(Head(line)) THEN 1 + digitsLen(Tail(line)) ELSE 0

\* /^\d+\.\s+/.test(line)
matchesNumber(line) ==
  /\ digitsLen(line) >= 1
  /\ Len(line) >= digitsLen(line) + 2
  /\ line[digitsLen(line) + 1] = "."
  /\ IsSpace(line[digitsLen(line) + 2])

\* line.replace(/^-\s+/, '').trim()
stripBullet(line) == trim(trimStart(SubSeq(line, 2, Len(line))))

\* line.replace(/^\d+\.\s+/, '').trim()
stripNumber(line) == trim(trimStart(SubSeq(line, digitsLen(line) + 2, Len(line))))

\* The block of one chunk, with some in the place of every in the test for
\* an unordered list.
blockOfSomeBullet(lines) ==
  LET heading == lines[1]
      body == Tail(lines)
  IN IF body = <<>> THEN [heading |-> heading, kind |-> "text", items |-> <<>>]
     ELSE IF \E i \in 1..Len(body) : matchesBullet(body[i])
          THEN [heading |-> heading, kind |-> "ul",
                items |-> [i \in 1..Len(body) |->
                             IF matchesBullet(body[i]) THEN stripBullet(body[i]) ELSE trim(body[i])]]
     ELSE IF \A i \in 1..Len(body) : matchesNumber(body[i])
          THEN [heading |-> heading, kind |-> "ol",
                items |-> [i \in 1..Len(body) |-> stripNumber(body[i])]]
     ELSE [heading |-> heading, kind |-> "text", items |-> body]

\* lines 23-47: the block of one chunk.
blockOf(lines) ==
  LET heading == lines[1]
      body == Tail(lines)
  IN IF body = <<>> THEN [heading |-> heading, kind |-> "text", items |-> <<>>]
     ELSE IF \A i \in 1..Len(body) : matchesBullet(body[i])
          THEN [heading |-> heading, kind |-> "ul",
                items |-> [i \in 1..Len(body) |-> stripBullet(body[i])]]
     ELSE IF \A i \in 1..Len(body) : matchesNumber(body[i])
          THEN [heading |-> heading, kind |-> "ol",
                items |-> [i \in 1..Len(body) |-> stripNumber(body[i])]]
     ELSE [heading |-> heading, kind |-> "text", items |-> body]

parseSummaryBlocks(text) ==
  LET pieces == splitBlankLines(text, 1, <<>>)
      NonEmpty(lines) == Len(lines) > 0
      chunks == SelectSeq([i \in 1..Len(pieces) |-> chunkLines(pieces[i])], NonEmpty)
  IN [i \in 1..Len(chunks) |-> blockOf(chunks[i])]

\* (summary?.content || '') without the trim.
contentOfNoTrim(summary) == IF summary = <<>> THEN <<>> ELSE summary[1].content

\* (summary?.content || '').trim()
contentOf(summary) == IF summary = <<>> THEN <<>> ELSE trim(summary[1].content)

\* The panel returns null when content is empty (lines 56-58).
panelRendered == content # <<>>

(***************************************************************************)
(* The inputs of the model: the snapshots the page is built with and the   *)
(* values the user can put into the controls.                              *)
(***************************************************************************)
IndexDates == {D19, D18, D17}

\* The lists of distinct pool papers with at most MaxPapers entries.
PaperLists ==
  UNION { {l \in [1..n -> PaperPool] : \A i, j \in 1..n : i # j => l[i] # l[j]}
          : n \in 0..MaxPapers }

\* The date lists, newest first, of at most MaxDates entries; the crawler
\* may repeat a date.
DateLists ==
  UNION { {l \in [1..n -> IndexDates] :
             \A i \in 1..(n - 1) : localeCompare(l[i], l[i + 1]) >= 0}
          : n \in 0..MaxDates }

\* search_index.json holds a document for every paper, for every paper but
\* the first, or is missing (loadSearchDocs then returns []).
SearchDocLists(ps) ==
  LET all == [i \in 1..Len(ps) |-> SearchDocOf(ps[i])]
  IN {<<>>, all, IF all = <<>> THEN <<>> ELSE Tail(all)}

\* DailySummary (site/lib/types.ts); model and generated_at are display-only.
SummaryOf(date, source, text) ==
  [date |-> date, content |-> text, source |-> source]

NoSummaries == [d \in {} |-> SummaryOf(d, "map", <<>>)]

\* index.json carries no daily_summary, one with text, one with an empty
\* text or one with a blank text.
SingleSummaries ==
  {<<>>, <<SummaryOf(D19, "single", <<"x">>)>>, <<SummaryOf(D18, "single", <<"x">>)>>,
   <<SummaryOf(D19, "single", <<>>)>>, <<SummaryOf(D18, "single", <<" ">>)>>}

SummaryMaps == {NoSummaries, [d \in {D19} |-> SummaryOf(d, "map", <<"y">>)]}

SummaryDateLists == {<<>>, <<D19, D18>>}

\* Snapshots that vary the papers and the search documents.
PaperSnapshots ==
  { [papers |-> ps, dates |-> ds, searchDocs |-> docs,
     dailySummary |-> <<>>, dailySummaries |-> NoSummaries]
    : <<ps, docs>> \in UNION { {ps} \X SearchDocLists(ps) : ps \in PaperLists },
      ds \in {<<D19, D18, D17>>} }

\* Snapshots that vary the date index.
DateSnapshots ==
  { [papers |-> ps, dates |-> ds, searchDocs |-> [i \in 1..Len(ps) |-> SearchDocOf(ps[i])],
     dailySummary |-> <<>>, dailySummaries |-> NoSummaries]
    : ps \in {<<P4, P1>>}, ds \in DateLists }

\* Snapshots that vary the daily summaries.
SummarySnapshots ==
  { [papers |-> ps, dates |-> ds, searchDocs |-> [i \in 1..Len(ps) |-> SearchDocOf(ps[i])],
     dailySummary |-> single, dailySummaries |-> byDate]
    : ps \in {<<P4, P1>>}, ds \in SummaryDateLists,
      single \in SingleSummaries, byDate \in SummaryMaps }

\* Snapshots with a record without authors, of the second date of the
\* index, so that the first render does not show it; search_index.json is
\* missing.
MalformedSnapshots ==
  { [papers |-> ps, dates |-> ds, searchDocs |-> <<>>,
     dailySummary |-> <<>>, dailySummaries |-> NoSummaries]
    : ps \in {<<P5, P1>>}, ds \in {<<D19, D18>>} }

Snapshots == PaperSnapshots \cup DateSnapshots \cup SummarySnapshots \cup MalformedSnapshots

AuthorInputs == {<<>>, <<" ", "X", "y">>}

\* <input type="date"> yields '' or an ISO day, which need not be in dates.
DateInputs == {"", D19, D18, D17, D16}

LangInputs == {"zh", "en"}

\* The lines a summary text is made of: blank, a heading, list items with
\* and without the blank after the marker, with plain and irregular spacing.
LinePool ==
  { <<>>, <<" ">>, <<"K", " ", "F">>,
    <<"-", " ", "A">>, <<" ", "-", " ", " ", "B", " ">>, <<"-", "A">>,
    <<"1", ".", " ", "A">>, <<"1", "2", ".", " ", " ", "B">>, <<"1", ".", "A">> }

\* The texts of at most maxLines lines.
ContentInputs(maxLines) ==
  UNION { {join(l, <<"\n">>) : l \in [1..n -> LinePool]} : n \in 0..maxLines }

PanelSnapshots(maxLines) ==
  { [papers |-> <<>>, dates |-> <<>>, searchDocs |-> <<>>,
     dailySummary |-> <<SummaryOf(D19, "single", c)>>, dailySummaries |-> NoSummaries]
    : c \in ContentInputs(maxLines) }

\* The library the page is built with: either presence for every snapshot
\* with search documents.  Without search documents no index is built
\* (lunrIndex is null) and the library is never asked, so one presence
\* stands for both.
LunrPresencesOf(snap) ==
  IF snap.searchDocs # <<>> THEN LunrPresences ELSE {"required"}

(***************************************************************************)
(* The first render.                                                       *)
(***************************************************************************)
InitFrom(snap) ==
    /\ papers = snap.papers
    /\ dates = snap.dates
    /\ searchDocs = snap.searchDocs
    /\ dailySummary = snap.dailySummary
    /\ dailySummaries = snap.dailySummaries
    /\ query = <<>>
    /\ dateFilter = firstDateOr(snap.dates)
    /\ authorFilter = <<>>
    /\ lang = "zh"
    /\ lunrIndex = lunrIndexOf(snap.searchDocs)
    /\ filtered = filteredOf(snap.papers, lunrIndexOf(snap.searchDocs), <<>>,
                             firstDateOr(snap.dates), <<>>)
    /\ grouped = groupedOf(filtered)
    /\ visibleDates = visibleDatesOf(snap.dates, grouped)
    /\ activeDailySummary =
         activeDailySummaryOf(selectedDateOf(firstDateOr(snap.dates), snap.dates),
                              snap.dailySummary, snap.dailySummaries)
    /\ open = TRUE
    /\ content = contentOf(activeDailySummary)
    /\ blocks = parseSummaryBlocks(content)
    /\ renderError = FALSE
    /\ last = [op |-> "mount", from |-> <<>>]

Init ==
  \E snap \in Snapshots :
    /\ lunrPresence \in LunrPresencesOf(snap)
    /\ InitFrom(snap)

(***************************************************************************)
(* The render after a state update: every useMemo recomputes when one of   *)
(* its dependencies changed and keeps its value otherwise.  The props are  *)
(* never reassigned.                                                       *)
(***************************************************************************)
\* The render with authorFilter missing from the dependencies of filtered.
RerenderMissingAuthorDep(newQuery, newDate, newAuthor) ==
  LET filteredDeps == <<newDate, newQuery>> # <<dateFilter, query>>
      summaryDeps == selectedDateOf(newDate, dates) # selectedDate
  IN /\ filtered' = IF filteredDeps
                    THEN filteredOf(papers, lunrIndex, newQuery, newDate, newAuthor)
                    ELSE filtered
     /\ grouped' = IF filteredDeps THEN groupedOf(filtered') ELSE grouped
     /\ visibleDates' = IF filteredDeps THEN visibleDatesOf(dates, grouped')
                        ELSE visibleDates
     /\ activeDailySummary' =
          IF summaryDeps
          THEN activeDailySummaryOf(selectedDateOf(newDate, dates),
                                    dailySummary, dailySummaries)
          ELSE activeDailySummary
     /\ content' = contentOf(activeDailySummary')
     /\ blocks' = parseSummaryBlocks(content')
     /\ UNCHANGED <<props, lunrPresence, lunrIndex, open>>

\* The render with the ranking sorting the paper list itself: papers.sort
\* in place of the sort of the list papers.filter returned.
RerenderSortsPapers(newQuery, newDate, newAuthor) ==
  LET filteredDeps == <<newAuthor, newDate, newQuery>> # <<authorFilter, dateFilter, query>>
      summaryDeps == selectedDateOf(newDate, dates) # selectedDate
  IN /\ papers' = IF filteredDeps THEN sort(papers) ELSE papers
     /\ filtered' = IF filteredDeps
                    THEN filteredOf(papers, lunrIndex, newQuery, newDate, newAuthor)
                    ELSE filtered
     /\ grouped' = IF filteredDeps THEN groupedOf(filtered') ELSE grouped
     /\ visibleDates' = IF filteredDeps THEN visibleDatesOf(dates, grouped')
                        ELSE visibleDates
     /\ activeDailySummary' =
          IF summaryDeps
          THEN activeDailySummaryOf(selectedDateOf(newDate, dates),
                                    dailySummary, dailySummaries)
          ELSE activeDailySummary
     /\ content' = contentOf(activeDailySummary')
     /\ blocks' = parseSummaryBlocks(content')
     /\ UNCHANGED <<dates, searchDocs, dailySummary, dailySummaries, lunrPresence,
                  lunrIndex, open>>

Rerender(newQuery, newDate, newAuthor) ==
  LET filteredDeps == <<newAuthor, newDate, newQuery>> # <<authorFilter, dateFilter, query>>
      summaryDeps == selectedDateOf(newDate, dates) # selectedDate
  IN /\ filtered' = IF filteredDeps
                    THEN filteredOf(papers, lunrIndex, newQuery, newDate, newAuthor)
                    ELSE filtered
     /\ grouped' = IF filteredDeps THEN groupedOf(filtered') ELSE grouped
     /\ visibleDates' = IF filteredDeps THEN visibleDatesOf(dates, grouped')
                        ELSE visibleDates
     /\ activeDailySummary' =
          IF summaryDeps
          THEN activeDailySummaryOf(selectedDateOf(newDate, dates),
                                    dailySummary, dailySummaries)
          ELSE activeDailySummary
     /\ content' = contentOf(activeDailySummary')
     /\ blocks' = parseSummaryBlocks(content')
     /\ UNCHANGED <<props, lunrPresence, lunrIndex, open>>

\* Whether the render after the update throws: the filtered memo reruns and
\* its callback throws, or a card of the new list does.
RenderThrows(newQuery, newDate, newAuthor) ==
  /\ <<newAuthor, newDate, newQuery>> # <<authorFilter, dateFilter, query>>
  /\ \/ filteredThrows(papers, lunrIndex, newQuery, newDate, newAuthor)
     \/ cardsThrow(papers, dates, lunrIndex, newQuery, newDate, newAuthor)

\* No error boundary is mounted: the render that threw commits nothing and
\* the component is gone.  The variables keep the last committed render.
Crash ==
  /\ renderError' = TRUE
  /\ UNCHANGED <<props, lunrPresence, filterState, memos, panel, last>>

(***************************************************************************)
(* The event handlers.                                                     *)
(***************************************************************************)
\* onChange of the keyword input (line 245)
SetQuery(v) ==
  /\ ~renderError
  /\ IF RenderThrows(v, dateFilter, authorFilter) THEN Crash
     ELSE /\ query' = v
          /\ UNCHANGED <<dateFilter, authorFilter, lang, renderError>>
          /\ Rerender(v, dateFilter, authorFilter)
          /\ last' = [op |-> "setQuery", from |-> <<>>]

\* onChange of the date input (line 271)
SetDateFilter(v) ==
  /\ ~renderError
  /\ IF RenderThrows(query, v, authorFilter) THEN Crash
     ELSE /\ dateFilter' = v
          /\ UNCHANGED <<query, authorFilter, lang, renderError>>
          /\ Rerender(query, v, authorFilter)
          /\ last' = [op |-> "setDateFilter", from |-> <<>>]

\* onClick of the reset button (line 277)
ResetDateFilter ==
  /\ ~renderError
  /\ IF RenderThrows(query, "", authorFilter) THEN Crash
     ELSE /\ dateFilter' = ""
          /\ UNCHANGED <<query, authorFilter, lang, renderError>>
          /\ Rerender(query, "", authorFilter)
          /\ last' = [op |-> "resetDateFilter", from |-> <<>>]

\* onChange of the author input (line 302)
SetAuthorFilter(v) ==
  /\ ~renderError
  /\ IF RenderThrows(query, dateFilter, v) THEN Crash
     ELSE /\ authorFilter' = v
          /\ UNCHANGED <<query, dateFilter, lang, renderError>>
          /\ Rerender(query, dateFilter, v)
          /\ last' = [op |-> "setAuthorFilter", from |-> <<>>]

\* The language switch remounting the page: the other filters go back to
\* their initial values.
SetLangRemounts(v) ==
  /\ ~renderError
  /\ IF RenderThrows(<<>>, firstDateOr(dates), <<>>) THEN Crash
     ELSE /\ lang' = v
          /\ query' = <<>>
          /\ dateFilter' = firstDateOr(dates)
          /\ authorFilter' = <<>>
          /\ UNCHANGED renderError
          /\ Rerender(<<>>, firstDateOr(dates), <<>>)
          /\ last' = [op |-> "setLang", from |-> <<>>]

\* onClick of the language buttons (lines 311, 314)
SetLang(v) ==
  /\ ~renderError
  /\ IF RenderThrows(query, dateFilter, authorFilter) THEN Crash
     ELSE /\ lang' = v
          /\ UNCHANGED <<query, dateFilter, authorFilter, renderError>>
          /\ Rerender(query, dateFilter, authorFilter)
          /\ last' = [op |-> "setLang", from |-> <<>>]

\* goPrevDay without the return after selecting dates[0].
goPrevDayResultFallThrough ==
  IF ~canGoPrevDay
  THEN IF dateFilter = "" /\ Len(dates) > 0 THEN dates[1] ELSE dateFilter
  ELSE dates[(selectedDateIndex + 1) + 1]

\* goPrevDay without the canGoPrevDay return: past the oldest date it reads
\* dates[selectedDateIndex + 1] beyond the array and stores undefined.
goPrevDayResultUnguarded ==
  IF dateFilter = ""
  THEN IF Len(dates) > 0 THEN dates[1] ELSE dateFilter
  ELSE IF (selectedDateIndex + 1) + 1 \in 1..Len(dates)
       THEN dates[(selectedDateIndex + 1) + 1]
       ELSE "undefined"

\* goPrevDay stepping only while the list shows something.
goPrevDayResultNeedsResults ==
  IF dateFilter = ""
  THEN IF Len(dates) > 0 THEN dates[1] ELSE dateFilter
  ELSE IF ~canGoPrevDay \/ filtered = <<>> THEN dateFilter
  ELSE dates[(selectedDateIndex + 1) + 1]

\* goPrevDay wrapping around: at the oldest date it selects the newest.
goPrevDayResultWraps ==
  IF dateFilter = ""
  THEN IF Len(dates) > 0 THEN dates[1] ELSE dateFilter
  ELSE IF selectedDateIndex < 0 THEN dateFilter
  ELSE IF selectedDateIndex >= Len(dates) - 1 THEN dates[1]
  ELSE dates[(selectedDateIndex + 1) + 1]

\* The date filter goPrevDay leaves behind (lines 64-75).
goPrevDayResult ==
  IF dateFilter = ""
  THEN IF Len(dates) > 0 THEN dates[1] ELSE dateFilter
  ELSE IF ~canGoPrevDay THEN dateFilter
  ELSE dates[(selectedDateIndex + 1) + 1]

\* goNextDay without the dates.length test: over an empty date index it
\* reads dates[0] and stores undefined.
goNextDayResultNoLengthGuard ==
  IF dateFilter = ""
  THEN IF Len(dates) > 0 THEN dates[1] ELSE "undefined"
  ELSE IF ~canGoNextDay THEN dateFilter
  ELSE dates[(selectedDateIndex - 1) + 1]

\* goNextDay reading dates[selectedDateIndex].
goNextDayResultNoStep ==
  IF dateFilter = ""
  THEN IF Len(dates) > 0 THEN dates[1] ELSE dateFilter
  ELSE IF ~canGoNextDay THEN dateFilter
  ELSE dates[selectedDateIndex + 1]

\* The date filter goNextDay leaves behind (lines 77-88).
goNextDayResult ==
  IF dateFilter = ""
  THEN IF Len(dates) > 0 THEN dates[1] ELSE dateFilter
  ELSE IF ~canGoNextDay THEN dateFilter
  ELSE dates[(selectedDateIndex - 1) + 1]

goPrevDay ==
  /\ ~renderError
  /\ IF RenderThrows(query, goPrevDayResult, authorFilter) THEN Crash
     ELSE /\ dateFilter' = goPrevDayResult
          /\ UNCHANGED <<query, authorFilter, lang, renderError>>
          /\ Rerender(query, goPrevDayResult, authorFilter)
          /\ last' = [op |-> "goPrevDay", from |-> <<dateFilter>>]

goNextDay ==
  /\ ~renderError
  /\ IF RenderThrows(query, goNextDayResult, authorFilter) THEN Crash
     ELSE /\ dateFilter' = goNextDayResult
          /\ UNCHANGED <<query, authorFilter, lang, renderError>>
          /\ Rerender(query, goNextDayResult, authorFilter)
          /\ last' = [op |-> "goNextDay", from |-> <<dateFilter>>]

\* onClick of the toggle of the overview panel (daily-summary.tsx:66); the
\* button exists while the panel is rendered.
TogglePanel ==
  /\ ~renderError
  /\ panelRendered
  /\ open' = ~open
  /\ content' = contentOf(activeDailySummary)
  /\ blocks' = parseSummaryBlocks(content')
  /\ UNCHANGED <<props, lunrPresence, filterState, memos, renderError>>
  /\ last' = [op |-> "togglePanel", from |-> <<>>]

Next ==
  \/ \E v \in QueryInputs : SetQuery(v)
  \/ \E v \in DateInputs : SetDateFilter(v)
  \/ ResetDateFilter
  \/ \E v \in AuthorInputs : SetAuthorFilter(v)
  \/ \E v \in LangInputs : SetLang(v)
  \/ goPrevDay
  \/ goNextDay
  \/ TogglePanel

Spec == Init /\ [][Next]_vars

(***************************************************************************)
(* The overview panel on its own: the page is built over an empty corpus   *)
(* with a single summary whose content is drawn from the bounded texts,    *)
(* and the panel is toggled.                                               *)
(***************************************************************************)
PanelInit ==
  \E snap \in PanelSnapshots(MaxLines) :
    /\ lunrPresence \in LunrPresencesOf(snap)
    /\ InitFrom(snap)

PanelNext == TogglePanel

PanelSpec == PanelInit /\ [][PanelNext]_vars

(***************************************************************************)
(* The page used through the day navigation alone: the two day buttons and *)
(* the reset button, nothing typed into the date input.                    *)
(***************************************************************************)
NavNext ==
  \/ goPrevDay
  \/ goNextDay
  \/ ResetDateFilter

NavSpec == Init /\ [][NavNext]_vars

(***************************************************************************)
(* Vocabulary of the properties.  These definitions restate what the       *)
(* specification says; they do not go through the handlers above.          *)
(***************************************************************************)
Range(seq) == {seq[i] : i \in 1..Len(seq)}

Occurrences(seq, x) == Cardinality({i \in 1..Len(seq) : seq[i] = x})

\* The query and the author substring after trim and lower-casing.
QueryText == toLowerCase(trim(query))

AuthorText == toLowerCase(trim(authorFilter))

\* What the index query returned: <<>> when there is no candidate set,
\* <<S>> when the query ran and returned the ids S.
CandidateSet == allowedIdsOf(QueryText, lunrIndex)

CandidatesUsable == CandidateSet # <<>> /\ CandidateSet[1] # {}

DatePasses(p) == dateFilter = "" \/ p.date = dateFilter

AuthorPasses(p) ==
  AuthorText = <<>> \/ includes(toLowerCase(join(p.authors, <<" ">>)), AuthorText)

\* title, joined authors, abstract, summaryEn, summaryZh, one space between.
LowerConcat(p) ==
  toLowerCase(p.title \o <<" ">> \o join(p.authors, <<" ">>) \o <<" ">> \o p.abstract
                \o <<" ">> \o p.summary_en \o <<" ">> \o p.summary_zh)

SubstringPasses(p) == includes(LowerConcat(p), QueryText)

TextPasses(p) ==
  \/ QueryText = <<>>
  \/ IF CandidatesUsable THEN p.paper_id \in CandidateSet[1] ELSE SubstringPasses(p)

HasSearchDoc(p) == \E i \in 1..Len(searchDocs) : searchDocs[i].id = p.paper_id

\* C1: the filtered list holds exactly the papers of the corpus that pass the
\* date, the author and the text predicate together, each of them once, and
\* no other paper.
C1_FilterComposition ==
  \A p \in PaperPool :
    Occurrences(filtered, p) =
      IF p \in Range(papers) /\ DatePasses(p) /\ AuthorPasses(p) /\ TextPasses(p)
      THEN 1 ELSE 0

\* All three filters are set, a paper passes them, one paper fails the date
\* predicate and another fails the author predicate alone.
C1_Witness ==
  /\ QueryText # <<>> /\ AuthorText # <<>> /\ dateFilter # ""
  /\ filtered # <<>>
  /\ \E p1, p2 \in Range(papers) \ Range(filtered) :
       /\ ~DatePasses(p1)
       /\ DatePasses(p2) /\ TextPasses(p2) /\ ~AuthorPasses(p2)

\* C2: with a non-empty query and a non-empty candidate set, a paper that
\* passes the date and author predicates is in the result if and only if
\* its id is in the candidate set; the substring test plays no part.
C2_CandidateSetAuthoritative ==
  (QueryText # <<>> /\ CandidatesUsable) =>
    \A p \in Range(papers) :
      (DatePasses(p) /\ AuthorPasses(p)) =>
        (p \in Range(filtered) <=> p.paper_id \in CandidateSet[1])

\* A non-empty candidate set, and two papers whose own text contains the
\* query are left out: one with a search document, one without.
C2_Witness ==
  /\ QueryText # <<>> /\ CandidatesUsable /\ filtered # <<>>
  /\ \E p, r \in Range(papers) \ Range(filtered) :
       /\ DatePasses(p) /\ AuthorPasses(p) /\ SubstringPasses(p) /\ HasSearchDoc(p)
       /\ DatePasses(r) /\ AuthorPasses(r) /\ SubstringPasses(r) /\ ~HasSearchDoc(r)

\* C3: with a non-empty query and either no search documents or an index
\* query that ran and returned nothing, a paper that passes the date and
\* author predicates is in the result if and only if its lower-cased
\* concatenated text contains the whole normalized query.
C3_SubstringFallback ==
  (QueryText # <<>> /\ (searchDocs = <<>> \/ CandidateSet = <<{}>>)) =>
    \A p \in Range(papers) :
      (DatePasses(p) /\ AuthorPasses(p)) =>
        (p \in Range(filtered) <=> SubstringPasses(p))

\* The index exists, the query ran and returned nothing, and a paper whose
\* abstract contains the query verbatim is in the result.
C3_Witness ==
  /\ QueryText # <<>> /\ searchDocs # <<>> /\ CandidateSet = <<{}>>
  /\ \E p \in Range(filtered) : includes(toLowerCase(p.abstract), QueryText)

\* upvotes with a missing value counted as 0
UpvotesOf(p) == IF p.upvotes = <<>> THEN 0 ELSE p.upvotes[1]

\* a does not rank after b: more upvotes, or as many and a later date, or
\* as many on the same date and an id that is not greater.
RanksNotAfter(a, b) ==
  \/ UpvotesOf(a) > UpvotesOf(b)
  \/ /\ UpvotesOf(a) = UpvotesOf(b)
     /\ \/ CollationRank(a.date) > CollationRank(b.date)
        \/ /\ a.date = b.date
           /\ CollationRank(a.paper_id) <= CollationRank(b.paper_id)

\* C4: the result is ordered by upvotes descending (missing counts as 0),
\* then date descending, then paper id ascending.
C4_RankOrder ==
  \A i \in 1..(Len(filtered) - 1) : RanksNotAfter(filtered[i], filtered[i + 1])

\* Three papers of one date match a query, in another order than the corpus: the one with
\* 50 upvotes first, then the missing and the zero upvotes by id.
C4_Witness ==
  /\ QueryText # <<>>
  /\ papers = <<P2, P1, P3>>
  /\ filtered = <<P3, P1, P2>>
  /\ Len(grouped) = 1

\* C5: the groups partition the ranked list by date: one group per date
\* that occurs, none empty, each holding the papers of its date in rank order.
C5_GroupingPartition ==
  /\ \A i, j \in 1..Len(grouped) : i # j => grouped[i].key # grouped[j].key
  /\ \A i \in 1..Len(grouped) :
       LET OfDate(p) == p.date = grouped[i].key
       IN grouped[i].value # <<>> /\ grouped[i].value = SelectSeq(filtered, OfDate)
  /\ \A k \in 1..Len(filtered) :
       \E i \in 1..Len(grouped) : grouped[i].key = filtered[k].date

\* Two groups whose papers interleave in the ranked list.
C5_Witness ==
  /\ filtered = <<P3, P4, P1>>
  /\ Len(grouped) = 2
  /\ grouped[1] = [key |-> D19, value |-> <<P3, P1>>]
  /\ grouped[2] = [key |-> D18, value |-> <<P4>>]

\* C6: the visible dates are the date index restricted to the dates with at
\* least one surviving paper, in the order of the date index.
C6_VisibleDates ==
  LET Survives(d) == \E k \in 1..Len(filtered) : filtered[k].date = d
  IN visibleDates = SelectSeq(dates, Survives)

\* The best-ranked paper is of the older date, the newer date still comes
\* first and the date without papers is left out.
C6_Witness ==
  /\ dates = <<D19, D18, D17>>
  /\ filtered = <<P4, P1>>
  /\ visibleDates = <<D19, D18>>

(***************************************************************************)
(* Navigation.                                                             *)
(***************************************************************************)
\* The date navigation starts from: the date filter, else the newest date.
NavDate == IF dateFilter # "" THEN dateFilter ELSE IF Len(dates) > 0 THEN dates[1] ELSE ""

\* Zero-based position of the first occurrence of d in the date index, or -1.
PositionOf(d) ==
  IF d \in Range(dates)
  THEN (CHOOSE i \in 1..Len(dates) :
          dates[i] = d /\ \A j \in 1..Len(dates) : dates[j] = d => i <= j) - 1
  ELSE -1

NavIndex == PositionOf(NavDate)

PrevControlEnabled == ~prevDayDisabled

NextControlEnabled == ~nextDayDisabled

EnablementByIndex ==
  /\ PrevControlEnabled <=> (NavIndex >= 0 /\ NavIndex < Len(dates) - 1)
  /\ NextControlEnabled <=> NavIndex > 0

\* C7 as stated: in every state the previous-day control is enabled iff
\* 0 <= i < len - 1 and the next-day control iff i > 0.
C7_Original == EnablementByIndex

\* C7, amended: while a date is selected in the filter, the previous-day
\* control is enabled iff 0 <= i < len - 1 and the next-day control iff
\* i > 0; while no date is selected both controls are enabled.
C7_ControlEnablement ==
  /\ dateFilter # "" => EnablementByIndex
  /\ dateFilter = "" => (PrevControlEnabled /\ NextControlEnabled)

\* The oldest of three dates was reached by stepping back: previous-day is
\* disabled there and next-day enabled.
C7_Witness ==
  /\ Len(dates) = 3 /\ dates[3] # dates[2]
  /\ last.op = "goPrevDay" /\ last.from = <<dates[2]>>
  /\ dateFilter = dates[3]
  /\ ~PrevControlEnabled /\ NextControlEnabled

NavOps == {"goPrevDay", "goNextDay"}

\* The date filter a navigation handler ran on.
SteppedFrom == last.from[1]

\* C8: from a selected date at position i of the date index, previous-day
\* moves to position i+1 when i < len - 1, next-day moves to position i-1
\* when i > 0, and a step that is not enabled leaves the date filter as it was.
C8_StepTargets ==
  (last.op \in NavOps /\ SteppedFrom # "" /\ SteppedFrom \in Range(dates)) =>
    LET i == PositionOf(SteppedFrom)
    IN /\ last.op = "goPrevDay" =>
            dateFilter = IF i < Len(dates) - 1 THEN dates[(i + 1) + 1] ELSE SteppedFrom
       /\ last.op = "goNextDay" =>
            dateFilter = IF i > 0 THEN dates[(i - 1) + 1] ELSE SteppedFrom

\* The example of the specification: next-day from 2026-02-18 in
\* [2026-02-19, 2026-02-18, 2026-02-17] arrives at 2026-02-19.
C8_Witness ==
  /\ dates = <<D19, D18, D17>>
  /\ last = [op |-> "goNextDay", from |-> <<D18>>]
  /\ dateFilter = D19

\* C9: with no date selected and a non-empty date index, one invocation of
\* previous-day or next-day selects the first date of the index and nothing
\* beyond it.
C9_SelectNewestFirst ==
  (last.op \in NavOps /\ SteppedFrom = "" /\ Len(dates) > 0) => dateFilter = dates[1]

\* Previous-day ran with an empty date filter over an index of several
\* dates and the newest is selected.
C9_Witness ==
  /\ Len(dates) >= 2 /\ dates[2] # dates[1]
  /\ last = [op |-> "goPrevDay", from |-> <<"">>]
  /\ dateFilter = dates[1]

UnknownDate(d) == d # "" /\ d \notin Range(dates)

\* C10 as stated: with a date filter that is not in the date index the
\* controls are usable and a navigation step selects the first date.
C10_Original ==
  /\ UnknownDate(dateFilter) =>
       (selectedDateIndex = -1 /\ PrevControlEnabled /\ NextControlEnabled)
  /\ (last.op \in NavOps /\ UnknownDate(SteppedFrom) /\ Len(dates) > 0) =>
       dateFilter = dates[1]

\* C10, amended: with a date filter that is not in the date index the index
\* is -1, both navigation controls are disabled and invoking previous-day or
\* next-day leaves the date filter unchanged.
C10_UnknownDateNoNavigation ==
  /\ UnknownDate(dateFilter) =>
       (selectedDateIndex = -1 /\ ~PrevControlEnabled /\ ~NextControlEnabled)
  /\ (last.op \in NavOps /\ UnknownDate(SteppedFrom)) => dateFilter = SteppedFrom

\* Previous-day ran on a date typed into the date input that is not among
\* the three dates of the index.
C10_Witness ==
  /\ Len(dates) = 3
  /\ last = [op |-> "goPrevDay", from |-> <<D16>>]
  /\ dateFilter = D16
  /\ ~PrevControlEnabled /\ ~NextControlEnabled

(***************************************************************************)
(* The daily overview.                                                     *)
(***************************************************************************)
\* The summary the resolution order yields for the date d.
ResolvedFor(d) ==
  IF d \in DOMAIN dailySummaries THEN <<dailySummaries[d]>>
  ELSE IF dailySummary # <<>> /\ dailySummary[1].date = d THEN dailySummary
  ELSE <<>>

\* C11: for a selected date d the active summary is the mapping entry of d
\* if there is one, else the single summary if its own date is d, else none;
\* a single summary of another date is never active.
C11_SummaryResolution ==
  NavDate # "" =>
    /\ activeDailySummary = ResolvedFor(NavDate)
    /\ (dailySummary # <<>> /\ dailySummary[1].date # NavDate)
         => activeDailySummary # dailySummary

\* Next-day arrived at a date that has a mapping entry and is also the date
\* of the single summary: the mapping entry is active.
C11_Witness ==
  /\ last = [op |-> "goNextDay", from |-> <<D18>>]
  /\ dateFilter = D19
  /\ dailySummary # <<>> /\ dailySummary[1].date = D19
  /\ D19 \in DOMAIN dailySummaries
  /\ activeDailySummary = <<dailySummaries[D19]>>
  /\ activeDailySummary # dailySummary

\* C12 as stated: whenever the date filter is empty the active summary is
\* the single summary (or none), whatever its date and the date index.
C12_Original == dateFilter = "" => activeDailySummary = dailySummary

\* C12, amended: with an empty date filter and an empty date index the
\* active summary is the single summary (or none) whatever its date; with
\* an empty date filter and a non-empty date index the summary is resolved
\* for the first date of the index.
C12_NoDateSelected ==
  /\ (dateFilter = "" /\ dates = <<>>) => activeDailySummary = dailySummary
  /\ (dateFilter = "" /\ dates # <<>>) => activeDailySummary = ResolvedFor(dates[1])

\* The date filter was reset over an empty date index and the single
\* summary, dated 2026-02-18, is active again.
C12_Witness ==
  /\ last.op = "resetDateFilter"
  /\ dateFilter = "" /\ dates = <<>>
  /\ dailySummary # <<>> /\ dailySummary[1].date = D18
  /\ activeDailySummary = dailySummary

(***************************************************************************)
(* The unfiltered view.                                                    *)
(***************************************************************************)
\* C13: with the query, the date filter and the author filter all empty the
\* result is the whole corpus: as many entries as papers, every paper once,
\* in rank order.
C13_FullCorpus ==
  (QueryText = <<>> /\ dateFilter = "" /\ AuthorText = <<>>) =>
    /\ Len(filtered) = Len(papers)
    /\ \A i \in 1..Len(papers) : Occurrences(filtered, papers[i]) = 1
    /\ \A i \in 1..(Len(filtered) - 1) : RanksNotAfter(filtered[i], filtered[i + 1])

\* The date filter was reset with no query and no author filter: the three
\* papers of two dates are all listed, in another order than the corpus.
C13_Witness ==
  /\ last.op = "resetDateFilter"
  /\ QueryText = <<>> /\ dateFilter = "" /\ AuthorText = <<>>
  /\ Len(papers) = 3 /\ Len(filtered) = 3 /\ filtered # papers
  /\ Len(grouped) = 2

(***************************************************************************)
(* The query planner.                                                      *)
(***************************************************************************)
\* The whitespace-separated terms of the normalized query.
QueryTerms == splitTerms(QueryText)

IndexedIds == {searchDocs[i].id : i \in 1..Len(searchDocs)}

\* The tokens the index holds for the search document with this id.
IndexedTokens(id) ==
  UNION {lunrDocTerms(searchDocs[i]) : i \in {j \in 1..Len(searchDocs) : searchDocs[j].id = id}}

TermIsPrefix(term, id) == \E tok \in IndexedTokens(id) : StartsWith(tok, term)

MatchesEveryTerm(id) == \A k \in 1..Len(QueryTerms) : TermIsPrefix(QueryTerms[k], id)

\* C14: for a query of two or more terms over an index with data the terms
\* are ANDed: every candidate has each term as a prefix of one of its
\* indexed tokens.  The component passes the wildcard terms joined by a
\* blank to the library; whether the statement holds is decided by the
\* presence the library gives such clauses, which the sources do not fix:
\* it holds in every state with lunrPresence = "required" and fails in
\* states with lunrPresence = "optional".
C14_TermsAnded ==
  (Len(QueryTerms) >= 2 /\ searchDocs # <<>> /\ CandidateSet # <<>>) =>
    \A id \in CandidateSet[1] : MatchesEveryTerm(id)

(***************************************************************************)
(* Errors.                                                                 *)
(***************************************************************************)
\* A term the query grammar of the index rejects: the ":" makes what
\* precedes it a field name, and it names no field.
IllegalTerm(term) == \E i \in 1..Len(term) : term[i] = ":"

QueryRaises ==
  searchDocs # <<>> /\ \E k \in 1..Len(QueryTerms) : IllegalTerm(QueryTerms[k])

WellFormed(p) == "authors" \in DOMAIN p

\* C15: when the index query raises an error the recomputation completes,
\* there is no candidate set, and a paper that passes date and author is in
\* the result if and only if its text contains the normalized query.
C15_QueryErrorFallsBack ==
  QueryRaises =>
    /\ CandidateSet = <<>>
    /\ (\A p \in Range(papers) : WellFormed(p)) => ~renderError
    /\ \A p \in Range(papers) :
         (DatePasses(p) /\ AuthorPasses(p)) =>
           (p \in Range(filtered) <=> SubstringPasses(p))

\* The query "x:" was typed over an index with data: the paper whose title
\* contains "x:" is listed, a paper with a token starting with x is not.
C15_Witness ==
  /\ last.op = "setQuery" /\ QueryText = <<"x", ":">> /\ QueryRaises
  /\ ~renderError
  /\ \E p \in Range(filtered) : includes(toLowerCase(p.title), QueryText)
  /\ \E r \in Range(papers) \ Range(filtered) :
       DatePasses(r) /\ AuthorPasses(r) /\ HasSearchDoc(r) /\ TermIsPrefix(<<"x">>, r.paper_id)

\* The text of a record, a missing authors field read as an empty list.
LenientConcat(p) ==
  toLowerCase(p.title \o <<" ">> \o (IF WellFormed(p) THEN join(p.authors, <<" ">>) ELSE <<>>)
                \o <<" ">> \o p.abstract \o <<" ">> \o p.summary_en \o <<" ">> \o p.summary_zh)

\* C16: a record without an optional field is read as having the empty
\* value: no recomputation raises an error, and a record without authors is
\* listed exactly when it passes the date filter, the author filter is
\* empty and its text, with no authors, passes the text filter.
C16_MissingFieldsTolerated ==
  /\ ~renderError
  /\ \A p \in Range(papers) :
       ~WellFormed(p) =>
         (p \in Range(filtered) <=>
            /\ DatePasses(p)
            /\ AuthorText = <<>>
            /\ QueryText = <<>> \/ includes(LenientConcat(p), QueryText))

(***************************************************************************)
(* The ranker as an order.                                                 *)
(***************************************************************************)
Sign(n) == IF n < 0 THEN -1 ELSE IF n > 0 THEN 1 ELSE 0

\* C17: for two distinct papers of the snapshot the comparator is never 0
\* and gives opposite signs for the two argument orders; the position of a
\* paper in the result is the number of listed papers the comparator puts
\* before it, whatever the order of the corpus.
C17_StrictTotalOrder ==
  /\ \A i, j \in 1..Len(papers) :
       i # j => /\ compare(papers[i], papers[j]) # 0
                /\ Sign(compare(papers[i], papers[j])) = -Sign(compare(papers[j], papers[i]))
  /\ \A k \in 1..Len(filtered) :
       k = 1 + Cardinality({r \in Range(filtered) : compare(r, filtered[k]) < 0})

\* Two papers with equal upvotes (a missing and a zero value) of one date
\* are both listed, ordered by id, against their order in the corpus.
C17_Witness ==
  /\ last.op = "setQuery" /\ QueryText # <<>>
  /\ \E i, j \in 1..Len(papers) : i < j /\ papers[i] = P2 /\ papers[j] = P1
  /\ \E i, j \in 1..Len(filtered) : i < j /\ filtered[i] = P1 /\ filtered[j] = P2
  /\ compare(P1, P2) < 0 /\ compare(P2, P1) > 0

(***************************************************************************)
(* The overview panel.                                                     *)
(***************************************************************************)
\* A line with nothing but blanks.
BlankLine(line) == \A i \in 1..Len(line) : line[i] = " "

\* The runs of consecutive non-blank lines, each line without the blanks
\* around it; cur is the run being collected.
RECURSIVE ChunksOf(_, _)
ChunksOf(lines, cur) ==
  IF lines = <<>> THEN (IF cur = <<>> THEN <<>> ELSE <<cur>>)
  ELSE IF BlankLine(Head(lines))
       THEN (IF cur = <<>> THEN <<>> ELSE <<cur>>) \o ChunksOf(Tail(lines), <<>>)
       ELSE ChunksOf(Tail(lines), Append(cur, trim(Head(lines))))

\* The line starts with "- ".
HasBulletMarker(line) == Len(line) >= 2 /\ line[1] = "-" /\ line[2] = " "

\* The lengths d of a prefix of d digits followed by ". ".
NumberMarkers(line) ==
  {d \in 1..(Len(line) - 2) :
     /\ \A i \in 1..d : IsDigit(line[i])
     /\ line[d + 1] = "." /\ line[d + 2] = " "}

HasNumberMarker(line) == NumberMarkers(line) # {}

\* The line without its first n characters and the blanks that follow.
AfterMarker(line, n) == trim(SubSeq(line, n + 1, Len(line)))

ExpectedBlock(chunk) ==
  LET body == Tail(chunk)
  IN IF body = <<>>
     THEN [heading |-> chunk[1], kind |-> "text", items |-> <<>>]
     ELSE IF \A i \in 1..Len(body) : HasBulletMarker(body[i])
     THEN [heading |-> chunk[1], kind |-> "ul",
           items |-> [i \in 1..Len(body) |-> AfterMarker(body[i], 2)]]
     ELSE IF \A i \in 1..Len(body) : HasNumberMarker(body[i])
     THEN [heading |-> chunk[1], kind |-> "ol",
           items |-> [i \in 1..Len(body) |->
                        AfterMarker(body[i], 2 + CHOOSE d \in NumberMarkers(body[i]) : TRUE)]]
     ELSE [heading |-> chunk[1], kind |-> "text", items |-> body]

\* C18: the blocks of the panel are, in content order, one block per run of
\* non-blank lines between blank lines: the first line is the heading, the
\* others the body; no body gives a heading-only block, a body of "- " lines
\* an unordered list of the lines without the marker, a body of
\* "<digits>. " lines an ordered list, any other body one paragraph per line;
\* a body that mixes marked and unmarked lines is not a list.
C18_SummaryBlocks ==
  LET chunks == ChunksOf(splitLines(content, 1, <<>>), <<>>)
  IN /\ blocks = [k \in 1..Len(chunks) |-> ExpectedBlock(chunks[k])]
     /\ \A k \in 1..Len(blocks) :
          /\ blocks[k].kind = "ul" =>
               \A i \in 2..Len(chunks[k]) : HasBulletMarker(chunks[k][i])
          /\ blocks[k].kind = "ol" =>
               \A i \in 2..Len(chunks[k]) : HasNumberMarker(chunks[k][i])

\* The example of the specification, a heading followed by two "- " lines,
\* the second one indented, rendered again after the panel was toggled
\* twice: one unordered list of A, B.
C18_Witness ==
  /\ last.op = "togglePanel" /\ open
  /\ content = <<"K", " ", "F", "\n", "-", " ", "A", "\n", " ", "-", " ", " ", "B">>
  /\ blocks = << [heading |-> <<"K", " ", "F">>, kind |-> "ul",
                  items |-> << <<"A">>, <<"B">> >>] >>

\* The content of a summary has a character that is not white space.
HasText(summary) ==
  \E i \in 1..Len(summary.content) : summary.content[i] \notin {" ", "\n"}

\* C19: the panel is rendered if and only if an active summary resolves
\* and its content is not empty after trimming; otherwise the panel is
\* absent and shows no block.
C19_PanelPresence ==
  /\ panelRendered <=> (activeDailySummary # <<>> /\ HasText(activeDailySummary[1]))
  /\ ~panelRendered => blocks = <<>>

\* The date input selected the date of a summary whose content is one
\* blank: the summary resolves and the panel is absent.
C19_Witness ==
  /\ last.op = "setDateFilter"
  /\ activeDailySummary # <<>>
  /\ activeDailySummary[1].content = <<" ">>
  /\ ~panelRendered

(***************************************************************************)
(* Memoization.                                                            *)
(***************************************************************************)
\* C20: in every state the memoized filtered list, grouping, visible dates
\* and active summary are what a computation from scratch, index build
\* included, yields for the snapshot and the current filter state.
C20_MemoEqualsRecompute ==
  /\ filtered = filteredOf(papers, lunrIndexOf(searchDocs), query, dateFilter, authorFilter)
  /\ grouped = groupedOf(filtered)
  /\ visibleDates = visibleDatesOf(dates, grouped)
  /\ activeDailySummary =
       activeDailySummaryOf(selectedDateOf(dateFilter, dates), dailySummary, dailySummaries)

\* The language was switched while a query and an author filter narrow the
\* list: no memo reran and the list is still the one of the filter state.
C20_Witness ==
  /\ last.op = "setLang" /\ lang = "en"
  /\ QueryText # <<>> /\ AuthorText # <<>>
  /\ filtered # <<>> /\ Len(filtered) < Len(papers)

(***************************************************************************)
(* The corpus snapshot.                                                    *)
(***************************************************************************)
\* C21: no step changes the snapshot: the paper list and its order, the
\* date index, the search documents and the summaries stay what the page was
\* built with, whatever is filtered, ranked or navigated.
C21_SnapshotImmutable == [][props' = props]_vars

\* The date filter was reset and the ranked list holds every paper in
\* another order than the paper list, which is still in the stored order.
C21_Witness ==
  /\ last.op = "resetDateFilter"
  /\ Len(papers) >= 2 /\ Len(filtered) = Len(papers)
  /\ Range(filtered) = Range(papers)
  /\ filtered # papers
  /\ filtered = sort(papers)

(***************************************************************************)
(* The date filter under navigation.                                       *)
(***************************************************************************)
\* C22: from the first render on, through any sequence of previous-day,
\* next-day and reset, the date filter is empty or a date of the date index;
\* it is never a value read from outside the index.
C22_DateFilterInIndex == dateFilter = "" \/ dateFilter \in Range(dates)

\* Previous-day walked to the oldest of three dates and ran again there,
\* where the next entry of the index would be past its end.
C22_Witness ==
  /\ Len(dates) = 3 /\ dates[1] # dates[2] /\ dates[2] # dates[3]
  /\ last = [op |-> "goPrevDay", from |-> <<dates[3]>>]
  /\ dateFilter = dates[3]

(***************************************************************************)
(* The result count and the cards shown.                                   *)
(***************************************************************************)
DuplicateFree(seq) == \A i, j \in 1..Len(seq) : i # j => seq[i] # seq[j]

\* The dates of the papers that survive the filters.
SurvivingDates == {filtered[k].date : k \in 1..Len(filtered)}

\* A surviving paper of a date that is not in the date index is counted and
\* is on no card, and its date heads no group.
AbsentDateHidden ==
  \A k \in 1..Len(filtered) :
    filtered[k].date \notin Range(dates) =>
      /\ resultCount >= 1
      /\ filtered[k] \notin Range(shownPapers)
      /\ filtered[k].date \notin Range(visibleDates)

\* C23 as stated: the count is the length of the filtered list and equals
\* the number of cards shown exactly when the date index is duplicate-free
\* and holds the date of every surviving paper.
C23_Original ==
  /\ resultCount = Len(filtered)
  /\ (resultCount = Len(shownPapers)) <=>
       (DuplicateFree(dates) /\ SurvivingDates \subseteq Range(dates))
  /\ AbsentDateHidden

\* C23, amended: the count is the length of the filtered list; it equals the
\* number of cards shown whenever the date of every surviving paper occurs
\* exactly once in the date index, and for a duplicate-free date index it
\* does so exactly when the index holds the date of every surviving paper; a
\* surviving paper of a date absent from the index is counted and not shown.
C23_CountAndShown ==
  /\ resultCount = Len(filtered)
  /\ (\A d \in SurvivingDates : Occurrences(dates, d) = 1) =>
       resultCount = Len(shownPapers)
  /\ DuplicateFree(dates) =>
       ((resultCount = Len(shownPapers)) <=> SurvivingDates \subseteq Range(dates))
  /\ AbsentDateHidden

\* All dates are shown over a duplicate-free index that lacks the date of
\* one of the two surviving papers: the chip says 2 and one card is shown.
C23_Witness ==
  /\ last.op = "resetDateFilter"
  /\ DuplicateFree(dates) /\ dates # <<>>
  /\ resultCount = 2 /\ Len(shownPapers) = 1
  /\ \E k \in 1..Len(filtered) : filtered[k].date \notin Range(dates)

(***************************************************************************)
(* Navigation over several steps.                                          *)
(***************************************************************************)
\* The step is a completed run of a day button (a render that throws leaves
\* last as it was).
PrevDayStep == last'.op = "goPrevDay" /\ last'.from = <<dateFilter>> /\ ~renderError'

NextDayStep == last'.op = "goNextDay" /\ last'.from = <<dateFilter>> /\ ~renderError'

\* The state was reached by the day button op from the date filter
\* DateIndex[i], a date of the duplicate-free date index.
CameFrom(op) ==
  /\ DuplicateFree(dates)
  /\ last.op = op
  /\ SteppedFrom # "" /\ SteppedFrom \in Range(dates)

RoundTripStep ==
  /\ (CameFrom("goPrevDay") /\ PositionOf(SteppedFrom) < Len(dates) - 1 /\ NextDayStep)
       => dateFilter' = SteppedFrom
  /\ (CameFrom("goNextDay") /\ PositionOf(SteppedFrom) > 0 /\ PrevDayStep)
       => dateFilter' = SteppedFrom
  /\ (PrevDayStep \/ NextDayStep) => UNCHANGED <<query, authorFilter, lang>>

\* C24: over a duplicate-free date index with the date filter on
\* DateIndex[i]: when previous-day is enabled (i < len - 1), next-day run
\* right after previous-day stores DateIndex[i] again; when next-day is
\* enabled (i > 0), previous-day run right after next-day does; and no run of
\* a day button changes the query, the author filter or the language.
C24_RoundTrip == [][RoundTripStep]_vars

\* Next-day has run from the oldest of three distinct dates and the middle
\* date is selected, under a query and with the English summaries.
C24_Witness ==
  /\ DuplicateFree(dates) /\ Len(dates) = 3
  /\ last = [op |-> "goNextDay", from |-> <<dates[3]>>]
  /\ dateFilter = dates[2]
  /\ goPrevDayResult = dates[3]
  /\ QueryText # <<>> /\ lang = "en"

\* The number of effective previous-day steps left before the oldest date,
\* and of next-day steps left before the newest.
StepsToOldest == (Len(dates) - 1) - PositionOf(dateFilter)

StepsToNewest == PositionOf(dateFilter)

\* Everything the page shows of the filters, the list and the overview.
View == <<filterState, memos, content, blocks>>

BoundedWalkStep ==
  (DuplicateFree(dates) /\ dateFilter # "" /\ dateFilter \in Range(dates)) =>
    /\ PrevDayStep =>
         IF StepsToOldest > 0
         THEN /\ PrevControlEnabled
              /\ dateFilter' = dates[(PositionOf(dateFilter) + 1) + 1]
              /\ StepsToOldest' = StepsToOldest - 1
         ELSE /\ ~PrevControlEnabled
              /\ dateFilter = dates[Len(dates)]
              /\ View' = View
    /\ NextDayStep =>
         IF StepsToNewest > 0
         THEN /\ NextControlEnabled
              /\ dateFilter' = dates[(PositionOf(dateFilter) - 1) + 1]
              /\ StepsToNewest' = StepsToNewest - 1
         ELSE /\ ~NextControlEnabled
              /\ dateFilter = dates[1]
              /\ View' = View

\* C25: over a duplicate-free date index of length n with the date filter on
\* DateIndex[i], a run of previous-day is effective exactly while n-1-i > 0
\* and lowers n-1-i by one, so DateIndex[n-1] is reached after exactly n-1-i
\* effective runs; there previous-day is disabled and a run changes nothing.
\* Next-day likewise lowers i by one down to DateIndex[0].  No run moves from
\* one end of the index to the other.
C25_BoundedWalk == [][BoundedWalkStep]_vars

\* Previous-day has run on the oldest of three distinct dates: it is
\* disabled there, the date is still selected and no step is left.
C25_Witness ==
  /\ DuplicateFree(dates) /\ Len(dates) = 3
  /\ last = [op |-> "goPrevDay", from |-> <<dates[3]>>]
  /\ dateFilter = dates[3]
  /\ StepsToOldest = 0 /\ StepsToNewest = 2
  /\ ~PrevControlEnabled /\ NextControlEnabled

(***************************************************************************)
(* Navigation and the other filters.                                       *)
(***************************************************************************)
\* What the render and the day buttons make of the date filter: the selected
\* date and its index, the enablement and the dates the buttons would store.
NavState ==
  <<selectedDate, selectedDateIndex, canGoPrevDay, canGoNextDay,
    prevDayDisabled, nextDayDisabled, goPrevDayResult, goNextDayResult>>

\* The step is a change of the query text or of the author substring.
TextFilterStep == query' # query \/ authorFilter' # authorFilter

NavigationBlindStep ==
  /\ TextFilterStep => NavState' = NavState
  /\ (dateFilter # "" /\ dateFilter \in Range(dates)) =>
       /\ (PrevDayStep /\ PositionOf(dateFilter) < Len(dates) - 1) =>
            dateFilter' = dates[(PositionOf(dateFilter) + 1) + 1]
       /\ (NextDayStep /\ PositionOf(dateFilter) > 0) =>
            dateFilter' = dates[(PositionOf(dateFilter) - 1) + 1]
  /\ ((PrevDayStep \/ NextDayStep) /\ dateFilter' # ""
        /\ \A k \in 1..Len(filtered') : filtered'[k].date # dateFilter')
       => visibleDates' = <<>>

\* C26: a change of the query text or of the author substring leaves the
\* selected date, its index, the enablement of both day buttons and the dates
\* they would store as they were; a day button moves the date filter to the
\* adjacent entry of the date index whatever survives the filters, and when
\* no paper of the new date survives the visible dates are empty.
C26_NavigationBlind == [][NavigationBlindStep]_vars

\* Under an author filter that only a paper of the newest date passes,
\* previous-day moved to the next date of the index, which has a paper: the
\* list and the visible dates are empty and the buttons still step.
C26_Witness ==
  /\ Len(dates) >= 2
  /\ last = [op |-> "goPrevDay", from |-> <<dates[1]>>]
  /\ dateFilter = dates[2] /\ dates[2] # dates[1]
  /\ AuthorText # <<>>
  /\ \E i \in 1..Len(papers) : papers[i].date = dateFilter
  /\ filtered = <<>> /\ visibleDates = <<>>
  /\ goNextDayResult = dates[1]

(***************************************************************************)
(* The first view.                                                         *)
(***************************************************************************)
\* The papers of the date d, in the order of the paper list.
PapersOfDate(d) ==
  LET OfDate(p) == p.date = d
  IN SelectSeq(papers, OfDate)

\* C27: at the first render the query and the author filter are empty, the
\* language is zh and the date filter is the first date of the date index,
\* or empty when the index is empty; with a non-empty index the list holds
\* exactly the papers of that date, each once, and not a paper of another.
C27_InitialState ==
  last.op = "mount" =>
    /\ query = <<>> /\ authorFilter = <<>> /\ lang = "zh"
    /\ dates # <<>> => dateFilter = dates[1]
    /\ dateFilter = "" <=> dates = <<>>
    /\ dates # <<>> =>
         /\ Range(filtered) = Range(PapersOfDate(dates[1]))
         /\ Len(filtered) = Len(PapersOfDate(dates[1]))
         /\ resultCount = Len(PapersOfDate(dates[1]))
         /\ (\E i \in 1..Len(papers) : papers[i].date # dates[1])
              => Len(filtered) < Len(papers)

\* The page opens over three papers, two of the newest date: the list shows
\* these two and leaves out the third.
C27_Witness ==
  /\ last.op = "mount" /\ ~renderError
  /\ Len(papers) = 3 /\ Len(filtered) = 2
  /\ dateFilter = dates[1]
  /\ \E i \in 1..Len(papers) : papers[i].date # dates[1]
  /\ \A k \in 1..Len(filtered) : filtered[k].date = dates[1]

(***************************************************************************)
(* The empty date index.                                                   *)
(***************************************************************************)
\* The active summary is no entry of the per-date mapping.
NotFromMapping ==
  \A d \in DOMAIN dailySummaries : activeDailySummary # <<dailySummaries[d]>>

\* C28 as stated: over an empty date index a day button leaves the date
\* filter as it was, the navigation index is -1 and the active summary never
\* comes from the per-date mapping.
C28_Original ==
  dates = <<>> =>
    /\ last.op \in NavOps => dateFilter = SteppedFrom
    /\ selectedDateIndex = -1
    /\ NotFromMapping

EmptyIndexStep ==
  dates = <<>> =>
    /\ (PrevDayStep \/ NextDayStep) => UNCHANGED filterState
    /\ selectedDateIndex = -1 /\ selectedDateIndex' = -1
    /\ dateFilter = "" => NotFromMapping
    /\ dateFilter' = "" => NotFromMapping'
    /\ (dateFilter' # "" /\ dateFilter' \in DOMAIN dailySummaries) =>
         activeDailySummary' = <<dailySummaries[dateFilter']>>

\* C28, amended: over an empty date index every run of a day button leaves
\* the whole filter state unchanged (an empty date filter stays empty), the
\* navigation index is -1, and while the date filter is empty the active
\* summary is not resolved from the per-date mapping; a date typed into the
\* date input is selected and its entry of the mapping, if any, is active.
C28_EmptyDateIndex == [][EmptyIndexStep]_vars

\* Previous-day ran over an empty date index with a per-date mapping and a
\* single summary: nothing is selected and the single summary is active.
C28_Witness ==
  /\ dates = <<>>
  /\ last = [op |-> "goPrevDay", from |-> <<"">>]
  /\ dateFilter = "" /\ selectedDateIndex = -1
  /\ DOMAIN dailySummaries # {}
  /\ dailySummary # <<>> /\ activeDailySummary = dailySummary

(***************************************************************************)
(* The language switch.                                                    *)
(***************************************************************************)
\* The step is a click on a language button.
LangStep == last'.op = "setLang" \/ lang' # lang

LangOnlyStep ==
  LangStep =>
    /\ lang' \in LangInputs
    /\ UNCHANGED <<query, dateFilter, authorFilter>>
    /\ UNCHANGED <<filtered, grouped, visibleDates, activeDailySummary>>
    /\ resultCount' = resultCount
    /\ shownPapers' = shownPapers
    /\ NavState' = NavState

\* C29: a click on a language button changes the language and nothing else:
\* the query, the date filter and the author filter, the ranked list, the
\* groups, the visible dates, the result count, the navigation state and the
\* active summary are what they were.
C29_LanguageOnly == [][LangOnlyStep]_vars

\* The language was switched to English on a page narrowed by a query and
\* a date, away from the newest date, with an active summary.
C29_Witness ==
  /\ last.op = "setLang" /\ lang = "en"
  /\ QueryText # <<>>
  /\ filtered # <<>> /\ visibleDates # <<>>
  /\ dates # <<>> /\ dateFilter # "" /\ dateFilter # dates[1]
  /\ canGoNextDay

=============================================================================
